---- MODULE Spec2Model ----
(***************************************************************************)
(* SonarrAPI (src/pyarr/sonarr_api.py): every method builds a path and     *)
(* query/body parameters and hands them to one of the four primitives of   *)
(* the request layer (request_get, request_post, request_put, request_del).*)
(*                                                                         *)
(* One action per method.  An action is one whole method call: it records  *)
(* the method and its arguments, the requests the call handed to the       *)
(* request layer (in order), and how the call ended (returned value or     *)
(* raised exception).  The methods keep no state between calls, so a       *)
(* behaviour is one call made on a fresh client.                           *)
(*                                                                         *)
(* Python values: a str that the code parses (a date) is a sequence of     *)
(* one-character strings; other strs are TLA+ strings; None/absent is the  *)
(* empty tuple <<>> and a given optional value v is <<v>>; a dict is a     *)
(* function from its keys; a keyword argument that is not passed to the    *)
(* request layer is a key that is not in the request's DOMAIN.             *)
(***************************************************************************)
EXTENDS Integers, Sequences, FiniteSets, TLC

VARIABLES
    method,          \* name of the method of the last call
    args,            \* its arguments, as bound by Python
    requests,        \* the requests the call handed to the request layer
    raised,          \* "" when the call returned, else the exception's class
    result,          \* the value the call returned (NoResult when it raised)
    served,          \* series lookup: Some(the list as the request layer returned
                     \* it), None when no list was returned
    res,             \* series lookup: Some(that same list object as it is when the
                     \* call ends), None when no list was returned
    strftime_pads_year   \* platform: does the C library's %Y zero-pad to 4 digits

vars == <<method, args, requests, raised, result, served, res, strftime_pads_year>>

(***************************************************************************)
(* Bounds of the model.                                                    *)
(***************************************************************************)
MaxSeasons == 2      \* seasons in a series descriptor
MaxResults == 2      \* matches in a lookup response
MaxId == 12          \* ids range over 0..MaxId

(***************************************************************************)
(* Python building blocks.                                                 *)
(***************************************************************************)
None == <<>>
Some(v) == <<v>>

NoResult == "NoResult"
NoCall == "no call yet"

\* the decimal digits, DigitStr[d + 1] is the character of digit d
DigitStr == <<"0", "1", "2", "3", "4", "5", "6", "7", "8", "9">>
Digits == {DigitStr[i] : i \in 1..10}
DigitVal(c) == (CHOOSE i \in 1..10 : DigitStr[i] = c) - 1

\* str(n) for an int, as an f-string "{n}" formats it
RECURSIVE NatStr(_)
NatStr(n) == IF n < 10 THEN DigitStr[n + 1]
             ELSE NatStr(n \div 10) \o DigitStr[(n % 10) + 1]
FormatInt(n) == IF n < 0 THEN "-" \o NatStr(-n) ELSE NatStr(n)

\* the same digits as a sequence of characters
RECURSIVE NatChars(_)
NatChars(n) == IF n < 10 THEN <<DigitStr[n + 1]>>
               ELSE NatChars(n \div 10) \o <<DigitStr[(n % 10) + 1]>>

\* Python truthiness of an optional str / optional int argument
TruthyStr(opt) == opt # None /\ opt[1] # <<>>
TruthyInt(opt) == opt # None /\ opt[1] # 0

(***************************************************************************)
(* datetime.strptime(s, "%Y-%m-%d"): the regular expression the format     *)
(* compiles to,                                                            *)
(*   (?P<Y>\d\d\d\d)-(?P<m>1[0-2]|0[1-9]|[1-9])-                           *)
(*   (?P<d>3[0-1]|[1-2]\d|0[1-9]|[1-9]| [1-9])                            *)
(* matched at the start of s, then "unconverted data remains" unless the   *)
(* match ends at the end of s, then the date is built (year >= 1, day      *)
(* within the month).  Every failure is a ValueError.                      *)
(***************************************************************************)
At(s, i) == IF i >= 1 /\ i <= Len(s) THEN s[i] ELSE "EOS"
IsDigitAt(s, i) == At(s, i) \in Digits
In19(c) == c \in Digits \ {"0"}

\* lengths of the alternatives of (?P<m>...) that match at i, in regex order
MonthLens(s, i) ==
    (IF At(s, i) = "1" /\ At(s, i + 1) \in {"0", "1", "2"} THEN <<2>> ELSE <<>>)
    \o (IF At(s, i) = "0" /\ In19(At(s, i + 1)) THEN <<2>> ELSE <<>>)
    \o (IF In19(At(s, i)) THEN <<1>> ELSE <<>>)

\* length of the first alternative of (?P<d>...) that matches at i, 0 if none
DayLen(s, i) ==
    IF At(s, i) = "3" /\ At(s, i + 1) \in {"0", "1"} THEN 2
    ELSE IF At(s, i) \in {"1", "2"} /\ IsDigitAt(s, i + 1) THEN 2
    ELSE IF At(s, i) = "0" /\ In19(At(s, i + 1)) THEN 2
    ELSE IF In19(At(s, i)) THEN 1
    ELSE IF At(s, i) = " " /\ In19(At(s, i + 1)) THEN 2
    ELSE 0

\* the month lengths after which the rest of the expression matches
MonthFits(s) ==
    SelectSeq(MonthLens(s, 6), LAMBDA n : At(s, 6 + n) = "-" /\ DayLen(s, 7 + n) > 0)

RegexMatches(s) ==
    /\ \A i \in 1..4 : IsDigitAt(s, i)
    /\ At(s, 5) = "-"
    /\ MonthFits(s) # <<>>

\* value of the digits of s in lo..hi, blanks skipped as int() strips them
RECURSIVE IntOf(_, _, _)
IntOf(s, lo, hi) ==
    IF hi < lo THEN 0
    ELSE IF s[hi] = " " THEN IntOf(s, lo, hi - 1)
    ELSE 10 * IntOf(s, lo, hi - 1) + DigitVal(s[hi])

IsLeap(y) == (y % 4 = 0) /\ ((y % 100 # 0) \/ (y % 400 = 0))
DaysInMonth(y, m) ==
    IF m = 2 THEN (IF IsLeap(y) THEN 29 ELSE 28)
    ELSE IF m \in {4, 6, 9, 11} THEN 30 ELSE 31

NoDate == [ok |-> FALSE, year |-> 0, month |-> 0, day |-> 0]

strptime(s) ==
    IF ~RegexMatches(s) THEN NoDate
    ELSE LET ml == MonthFits(s)[1]
             dl == DayLen(s, 7 + ml)
             y  == IntOf(s, 1, 4)
             m  == IntOf(s, 6, 5 + ml)
             d  == IntOf(s, 7 + ml, 6 + ml + dl)
         IN  IF 6 + ml + dl # Len(s) THEN NoDate
             ELSE IF y < 1 \/ d > DaysInMonth(y, m) THEN NoDate
             ELSE [ok |-> TRUE, year |-> y, month |-> m, day |-> d]

(***************************************************************************)
(* datetime.strftime("%Y-%m-%d"): %m and %d are zero-padded to two digits; *)
(* %Y is the C library's: four digits where it pads, the bare number       *)
(* (e.g. "999") where it does not.                                         *)
(***************************************************************************)
Pad2(n) == <<DigitStr[(n \div 10) + 1], DigitStr[(n % 10) + 1]>>
Pad4(n) == Pad2(n \div 100) \o Pad2(n % 100)

strftime(dt, pads) ==
    (IF pads THEN Pad4(dt.year) ELSE NatChars(dt.year))
    \o <<"-">> \o Pad2(dt.month) \o <<"-">> \o Pad2(dt.day)

(***************************************************************************)
(* The request layer's four primitives, as the requests they are handed.   *)
(***************************************************************************)
Get(path) == [verb |-> "GET", path |-> path]
GetP(path, params) == [verb |-> "GET", path |-> path, params |-> params]
Post(path, data) == [verb |-> "POST", path |-> path, data |-> data]
Put(path, data) == [verb |-> "PUT", path |-> path, data |-> data]
Del(path) == [verb |-> "DELETE", path |-> path]
DelP(path, params) == [verb |-> "DELETE", path |-> path, params |-> params]

\* what the request layer gives back: a decoded body, or it raises
Json == {"json1", "json2"}
TransportError == "TransportError"


(***************************************************************************)
(* The values the calls are made with.                                     *)
(***************************************************************************)
Ids == 0..MaxId
OptIds == {None} \cup {Some(i) : i \in Ids}
OptBools == {None} \cup {Some(b) : b \in BOOLEAN}
Default(opt, d) == IF opt = None THEN d ELSE opt[1]

YearToks == {<<"2", "0", "2", "1">>, <<"2", "0", "2", "0">>,
             <<"0", "9", "9", "9">>, <<"0", "0", "0", "0">>}
MonthToks == {<<"0", "2">>, <<"1", "2">>, <<"1">>, <<"1", "3">>}
DayToks == {<<"0", "1">>, <<"2", "9">>, <<"3", "1">>, <<"5">>, <<" ", "5">>}
OtherStrings ==
    { <<>>,
      <<"2", "0", "2", "1", "/", "0", "2", "/", "0", "1">>,
      <<"2", "0", "2", "1", "0", "2", "0", "1">>,
      <<"9", "9", "9", "-", "0", "2", "-", "0", "1">>,
      <<"2", "0", "2", "1", "-", "0", "2", "-", "0", "1", "T">>,
      <<"2", "0", "2", "1", "-", "0", "2">> }
DateStrings ==
    {y \o <<"-">> \o m \o <<"-">> \o d : y \in YearToks, m \in MonthToks, d \in DayToks}
    \cup OtherStrings
OptDates == {None} \cup {Some(s) : s \in DateStrings}

SortKeys == {"series.title", "date"}
SortDirs == {"asc", "desc"}
OptSortDirs == {None} \cup {Some(d) : d \in SortDirs}
Pages == {1, 2}
OptPages == {None} \cup {Some(p) : p \in Pages}
PageSizes == {10, 50}
OptPageSizes == {None} \cup {Some(p) : p \in PageSizes}
Records == {"record1", "record2"}
Texts == {"Show.S01E01.720p", "/tv/Show/S01E01.mkv"}

CommandNames == {"RescanSeries", "RefreshSeries"}
ExtraKeys == {"seriesId", "seasonNumber"}
Kwargs == UNION {[ks -> Ids] : ks \in SUBSET ExtraKeys}

Titles == {"Show", "/Other Show"}
RootDirs == {"/tv/", "/tv", ""}
SeasonLists ==
    UNION {{[i \in 1..n |-> [seasonNumber |-> i, monitored |-> f[i]]] :
               f \in [1..n -> BOOLEAN]} : n \in 0..MaxSeasons}
Descriptors ==
    [title : Titles, seasons : SeasonLists, images : {"images"}, titleSlug : {"slug"}]
LaterMatches ==
    { [title |-> "Later", seasons |-> <<[seasonNumber |-> 1, monitored |-> TRUE]>>,
       images |-> "later images", titleSlug |-> "later"],
      [title |-> "Last", seasons |-> <<>>,
       images |-> "last images", titleSlug |-> "last"] }
LookupResults ==
    {<<>>} \cup
    UNION {{<<d>> \o tail : d \in Descriptors, tail \in [1..n -> LaterMatches]} :
              n \in 0..(MaxResults - 1)}

OptLookupResults == {None} \cup {Some(l) : l \in LookupResults}
TvdbIds == {7, MaxId}
SeriesArgs ==
    [tvdb_id : TvdbIds, quality_profile_id : {1}, root_dir : RootDirs,
     season_folder : BOOLEAN, monitored : BOOLEAN,
     ignore_episodes_with_files : BOOLEAN,
     ignore_episodes_without_files : BOOLEAN,
     search_for_missing_episodes : BOOLEAN]

Terms == {"tvdb:0", "tvdb:7", "tvdb:12", "tvdb:012", "tvdb: 7", "7", "Show"}

(***************************************************************************)
(* How a call ends.                                                        *)
(***************************************************************************)
Ended(m, a, reqs, err, val) ==
    /\ method' = m
    /\ args' = a
    /\ requests' = reqs
    /\ raised' = err
    /\ result' = val
    /\ UNCHANGED strftime_pads_year

\* a client that tries a failed request a second time before giving up
OneRequest_RetriesOnce(m, a, r) ==
    /\ \E body \in Json \cup {TransportError} :
          IF body = TransportError
          THEN Ended(m, a, <<r, r>>, TransportError, NoResult)
          ELSE Ended(m, a, <<r>>, "", body)
    /\ served' = None
    /\ res' = None

\* res = self.request_xxx(...); return res
\* the request layer returns a decoded body or raises, the method passes on either
OneRequest(m, a, r) ==
    /\ \E body \in Json \cup {TransportError} :
          IF body = TransportError
          THEN Ended(m, a, <<r>>, TransportError, NoResult)
          ELSE Ended(m, a, <<r>>, "", body)
    /\ served' = None
    /\ res' = None

\* an exception raised before anything was handed to the request layer
RaisedBeforeRequest(m, a, err) ==
    /\ Ended(m, a, <<>>, err, NoResult)
    /\ served' = None
    /\ res' = None

(***************************************************************************)
(* CALENDAR                                                                *)
(***************************************************************************)
\* the strptime(...) of lines 74 and 78 raises ValueError
DateRejected(opt) == TruthyStr(opt) /\ ~strptime(opt[1]).ok

\* params of lines 72-78
CalendarParams(start_date, end_date, pads) ==
    [k \in (IF TruthyStr(start_date) THEN {"start"} ELSE {})
           \cup (IF TruthyStr(end_date) THEN {"end"} ELSE {}) |->
        IF k = "start" THEN strftime(strptime(start_date[1]), pads)
        ELSE strftime(strptime(end_date[1]), pads)]

get_calendar ==
    /\ method = NoCall
    /\ \E start_date \in OptDates, end_date \in OptDates :
           LET a == [start_date |-> start_date, end_date |-> end_date]
           IN  IF DateRejected(start_date) \/ DateRejected(end_date)
               THEN RaisedBeforeRequest("get_calendar", a, "ValueError")
               ELSE OneRequest("get_calendar", a,
                        GetP("/api/calendar",
                             CalendarParams(start_date, end_date, strftime_pads_year)))

(***************************************************************************)
(* COMMAND                                                                 *)
(***************************************************************************)
CommandPath(id_) ==
    IF TruthyInt(id_) THEN "/api/command/" \o FormatInt(id_[1]) ELSE "/api/command"

get_command ==
    /\ method = NoCall
    /\ \E id_ \in OptIds :
           OneRequest("get_command", [id_ |-> id_], Get(CommandPath(id_)))

\* a body that carries the name only
CommandData_DropsKwargs(name, kwargs) == [k \in {"name"} |-> name]

\* data of lines 116-119: {**kwargs, "name": name}
CommandData(name, kwargs) ==
    [k \in DOMAIN kwargs \cup {"name"} |-> IF k = "name" THEN name ELSE kwargs[k]]

set_command ==
    /\ method = NoCall
    /\ \E name \in CommandNames, kwargs \in Kwargs :
           OneRequest("set_command", [name |-> name, kwargs |-> kwargs],
                      Post("/api/command", CommandData(name, kwargs)))


(***************************************************************************)
(* DISKSPACE, EPISODE, EPISODE FILE                                        *)
(***************************************************************************)
get_disk_space ==
    /\ method = NoCall
    /\ OneRequest("get_disk_space", <<>>, Get("/api/diskspace"))

get_episodes_by_series_id ==
    /\ method = NoCall
    /\ \E id_ \in Ids :
           OneRequest("get_episodes_by_series_id", [id_ |-> id_],
                      GetP("/api/episode", [seriesId |-> id_]))

get_episode_by_episode_id ==
    /\ method = NoCall
    /\ \E id_ \in Ids :
           OneRequest("get_episode_by_episode_id", [id_ |-> id_],
                      Get("/api/episode/" \o FormatInt(id_)))

upd_episode ==
    /\ method = NoCall
    /\ \E data \in Records :
           OneRequest("upd_episode", [data |-> data], Put("/api/episode", data))

get_episode_files_by_series_id ==
    /\ method = NoCall
    /\ \E id_ \in Ids :
           OneRequest("get_episode_files_by_series_id", [id_ |-> id_],
                      GetP("/api/episodefile", [seriesId |-> id_]))

get_episode_file ==
    /\ method = NoCall
    /\ \E id_ \in Ids :
           OneRequest("get_episode_file", [id_ |-> id_],
                      Get("/api/episodefile/" \o FormatInt(id_)))

del_episode_file ==
    /\ method = NoCall
    /\ \E id_ \in Ids :
           OneRequest("del_episode_file", [id_ |-> id_],
                      Del("/api/episodefile/" \o FormatInt(id_)))

upd_episode_file_quality ==
    /\ method = NoCall
    /\ \E id_ \in Ids, data \in Records :
           OneRequest("upd_episode_file_quality", [id_ |-> id_, data |-> data],
                      Put("/api/episodefile/" \o FormatInt(id_), data))

(***************************************************************************)
(* HISTORY, WANTED (MISSING)                                               *)
(***************************************************************************)
\* params of lines 256-263
HistoryParams(sort_key, page, page_size, sort_dir, id_) ==
    [k \in {"sortKey", "page", "pageSize", "sortDir"}
           \cup (IF TruthyInt(id_) THEN {"episodeId"} ELSE {}) |->
        CASE k = "sortKey" -> sort_key
          [] k = "page" -> page
          [] k = "pageSize" -> page_size
          [] k = "sortDir" -> sort_dir
          [] k = "episodeId" -> id_[1]]

get_history ==
    /\ method = NoCall
    /\ \E sort_key \in SortKeys, page \in OptPages, page_size \in OptPageSizes,
          sort_dir \in OptSortDirs, id_ \in OptIds :
           OneRequest("get_history",
                      [sort_key |-> sort_key, page |-> page, page_size |-> page_size,
                       sort_dir |-> sort_dir, id_ |-> id_],
                      GetP("/api/history",
                           HistoryParams(sort_key, Default(page, 1), Default(page_size, 10),
                                         Default(sort_dir, "desc"), id_)))

get_wanted ==
    /\ method = NoCall
    /\ \E sort_key \in SortKeys, page \in OptPages, page_size \in OptPageSizes,
          sort_dir \in OptSortDirs :
           OneRequest("get_wanted",
                      [sort_key |-> sort_key, page |-> page, page_size |-> page_size,
                       sort_dir |-> sort_dir],
                      GetP("/api/wanted/missing",
                           [sortKey |-> sort_key, page |-> Default(page, 1),
                            pageSize |-> Default(page_size, 10),
                            sortDir |-> Default(sort_dir, "asc")]))

(***************************************************************************)
(* QUEUE                                                                   *)
(***************************************************************************)
get_queue ==
    /\ method = NoCall
    /\ OneRequest("get_queue", <<>>, Get("/api/queue"))

\* a request that always asks for the blacklisting
QueueDelete_AlwaysBlacklists(id_, blacklist) ==
    DelP("/api/queue/", [id |-> id_, blacklist |-> TRUE])

\* the request of lines 317-319
QueueDelete(id_, blacklist) ==
    DelP("/api/queue/", [id |-> id_, blacklist |-> blacklist])

del_queue ==
    /\ method = NoCall
    /\ \E id_ \in Ids, blacklist \in OptBools :
           OneRequest("del_queue", [id_ |-> id_, blacklist |-> blacklist],
                      QueueDelete(id_, Default(blacklist, TRUE)))

(***************************************************************************)
(* PARSE, PROFILE, RELEASE, ROOT FOLDER                                    *)
(***************************************************************************)
get_parsed_title ==
    /\ method = NoCall
    /\ \E title \in Texts :
           OneRequest("get_parsed_title", [title |-> title],
                      GetP("/api/parse", [title |-> title]))

get_parsed_path ==
    /\ method = NoCall
    /\ \E path \in Texts :
           OneRequest("get_parsed_path", [path |-> path],
                      GetP("/api/parse", [path |-> path]))

get_quality_profiles ==
    /\ method = NoCall
    /\ OneRequest("get_quality_profiles", <<>>, Get("/api/profile"))

get_releases ==
    /\ method = NoCall
    /\ \E id_ \in Ids :
           OneRequest("get_releases", [id_ |-> id_],
                      GetP("/api/release", [episodeId |-> id_]))

download_release ==
    /\ method = NoCall
    /\ \E guid \in Texts, indexer_id \in Ids :
           OneRequest("download_release", [guid |-> guid, indexer_id |-> indexer_id],
                      Post("/api/release", [guid |-> guid, indexerId |-> indexer_id]))

push_release ==
    /\ method = NoCall
    /\ \E title \in Texts, download_url \in Texts, protocol \in {"Usenet", "Torrent"},
          publish_date \in {"2021-02-01T00:00:00Z"} :
           OneRequest("push_release",
                      [title |-> title, download_url |-> download_url,
                       protocol |-> protocol, publish_date |-> publish_date],
                      Post("/api/release/push",
                           [title |-> title, downloadUrl |-> download_url,
                            protocol |-> protocol, publishDate |-> publish_date]))

get_root_folder ==
    /\ method = NoCall
    /\ OneRequest("get_root_folder", <<>>, Get("/api/rootfolder"))


(***************************************************************************)
(* SERIES                                                                  *)
(***************************************************************************)
SeriesPath(id_) ==
    IF TruthyInt(id_) THEN "/api/series/" \o FormatInt(id_[1]) ELSE "/api/series"

get_series ==
    /\ method = NoCall
    /\ \E id_ \in OptIds :
           OneRequest("get_series", [id_ |-> id_], Get(SeriesPath(id_)))

\* the request of lines 533-535
lookup_series_request(term) == GetP("/api/series/lookup", [term |-> term])

\* a term that is the bare id, without the provider prefix
lookup_series_by_tvdb_id_request_BareId(id_) ==
    GetP("/api/series/lookup", [term |-> FormatInt(id_)])

\* the request of lines 547-549
lookup_series_by_tvdb_id_request(id_) ==
    GetP("/api/series/lookup", [term |-> "tvdb:" \o FormatInt(id_)])

\* res[0]
FirstMatch(lst) == lst[1]

\* a loop that stops one season short
ForceUnmonitored_KeepsLast(seasons) ==
    [i \in DOMAIN seasons |->
        IF i < Len(seasons) THEN [seasons[i] EXCEPT !.monitored = FALSE] ELSE seasons[i]]

\* for season in s_dict["seasons"]: season["monitored"] = False
ForceUnmonitored(seasons) ==
    [i \in DOMAIN seasons |-> [seasons[i] EXCEPT !.monitored = FALSE]]

\* the list object res after lines 35-38: the loop writes into the first
\* match's own season dicts
AfterSeasonLoop(lst, monitored) ==
    IF ~monitored /\ FirstMatch(lst).seasons # <<>>
    THEN [lst EXCEPT ![1].seasons = ForceUnmonitored(@)]
    ELSE lst

\* a payload whose path is joined with a separator
SeriesJson_JoinsPath(a, s_dict) ==
    [title |-> s_dict.title,
     seasons |-> s_dict.seasons,
     path |-> a.root_dir \o "/" \o s_dict.title,
     qualityProfileId |-> a.quality_profile_id,
     seasonFolder |-> a.season_folder,
     monitored |-> a.monitored,
     tvdbId |-> a.tvdb_id,
     images |-> s_dict.images,
     titleSlug |-> s_dict.titleSlug,
     addOptions |->
        [ignoreEpisodesWithFiles |-> a.ignore_episodes_with_files,
         ignoreEpisodesWithoutFiles |-> a.ignore_episodes_without_files,
         searchForMissingEpisodes |-> a.search_for_missing_episodes]]

\* series_json of lines 40-55, s_dict being the first match after the loop
SeriesJson(a, s_dict) ==
    [title |-> s_dict.title,
     seasons |-> s_dict.seasons,
     path |-> a.root_dir \o s_dict.title,
     qualityProfileId |-> a.quality_profile_id,
     seasonFolder |-> a.season_folder,
     monitored |-> a.monitored,
     tvdbId |-> a.tvdb_id,
     images |-> s_dict.images,
     titleSlug |-> s_dict.titleSlug,
     addOptions |->
        [ignoreEpisodesWithFiles |-> a.ignore_episodes_with_files,
         ignoreEpisodesWithoutFiles |-> a.ignore_episodes_without_files,
         searchForMissingEpisodes |-> a.search_for_missing_episodes]]

\* construct_series_json, lines 34-56; response is what the request layer does
\* with the lookup: None when it raises, else the list it returns
ConstructSeriesJson(a, response) ==
    LET lookup == lookup_series_request(a.tvdb_id)
    IN  IF response = None
        THEN [requests |-> <<lookup>>, raised |-> TransportError,
              result |-> NoResult, served |-> None, res |-> None]
        ELSE IF response[1] = <<>>
        THEN [requests |-> <<lookup>>, raised |-> "IndexError",
              result |-> NoResult, served |-> response, res |-> response]
        ELSE LET after == AfterSeasonLoop(response[1], a.monitored)
             IN  [requests |-> <<lookup>>, raised |-> "",
                  result |-> SeriesJson(a, FirstMatch(after)),
                  served |-> response, res |-> Some(after)]

construct_series_json ==
    /\ method = NoCall
    /\ \E a \in SeriesArgs, response \in OptLookupResults :
           LET c == ConstructSeriesJson(a, response)
           IN  /\ Ended("construct_series_json", a, c.requests, c.raised, c.result)
               /\ served' = c.served
               /\ res' = c.res

\* add_series, lines 480-493
add_series ==
    /\ method = NoCall
    /\ \E a \in SeriesArgs, response \in OptLookupResults, body \in Json \cup {TransportError} :
           LET c == ConstructSeriesJson(a, response)
               post == Post("/api/series", c.result)
           IN  /\ IF c.raised # ""
                  THEN Ended("add_series", a, c.requests, c.raised, NoResult)
                  ELSE IF body = TransportError
                  THEN Ended("add_series", a, c.requests \o <<post>>, TransportError, NoResult)
                  ELSE Ended("add_series", a, c.requests \o <<post>>, "", body)
               /\ served' = c.served
               /\ res' = c.res

upd_series ==
    /\ method = NoCall
    /\ \E data \in Records :
           OneRequest("upd_series", [data |-> data], Put("/api/series", data))

del_series ==
    /\ method = NoCall
    /\ \E id_ \in Ids, delete_files \in OptBools :
           OneRequest("del_series", [id_ |-> id_, delete_files |-> delete_files],
                      DelP("/api/series/" \o FormatInt(id_),
                           [deleteFiles |-> Default(delete_files, FALSE)]))

\* a lookup method: one request, the decoded list is returned as it is
LookupCall(m, a, r) ==
    \E response \in OptLookupResults :
        /\ IF response = None
           THEN Ended(m, a, <<r>>, TransportError, NoResult)
           ELSE Ended(m, a, <<r>>, "", response[1])
        /\ served' = response
        /\ res' = response

lookup_series ==
    /\ method = NoCall
    /\ \E term \in Terms :
           LookupCall("lookup_series", [term |-> term], lookup_series_request(term))

lookup_series_by_tvdb_id ==
    /\ method = NoCall
    /\ \E id_ \in Ids :
           LookupCall("lookup_series_by_tvdb_id", [id_ |-> id_],
                      lookup_series_by_tvdb_id_request(id_))

(***************************************************************************)
(* SYSTEM, TAG, LOG                                                        *)
(***************************************************************************)
get_system_status ==
    /\ method = NoCall
    /\ OneRequest("get_system_status", <<>>, Get("/api/system/status"))

get_backup ==
    /\ method = NoCall
    /\ OneRequest("get_backup", <<>>, Get("/api/system/backup"))

TagPath(id_) ==
    IF ~TruthyInt(id_) THEN "/api/tag" ELSE "/api/tag/" \o FormatInt(id_[1])

get_tag ==
    /\ method = NoCall
    /\ \E id_ \in OptIds :
           OneRequest("get_tag", [id_ |-> id_], Get(TagPath(id_)))

TagLabels == {"anime", "4k"}

create_tag ==
    /\ method = NoCall
    /\ \E id_ \in Ids, label \in TagLabels :
           OneRequest("create_tag", [id_ |-> id_, label |-> label],
                      Post("/api/tag", [id |-> id_, label |-> label]))

upd_tag ==
    /\ method = NoCall
    /\ \E id_ \in Ids, label \in TagLabels :
           OneRequest("upd_tag", [id_ |-> id_, label |-> label],
                      Put("/api/tag/" \o FormatInt(id_), [id |-> id_, label |-> label]))

del_tag ==
    /\ method = NoCall
    /\ \E id_ \in Ids :
           OneRequest("del_tag", [id_ |-> id_], Del("/api/tag/" \o FormatInt(id_)))

get_logs ==
    /\ method = NoCall
    /\ \E page \in OptPages, page_size \in OptPageSizes, sort_key \in {None, Some("time")},
          sort_dir \in OptSortDirs, filter_key \in {None, Some("level")},
          filter_value \in {None, Some("Warn")} :
           OneRequest("get_logs",
                      [page |-> page, page_size |-> page_size, sort_key |-> sort_key,
                       sort_dir |-> sort_dir, filter_key |-> filter_key,
                       filter_value |-> filter_value],
                      GetP("/api/log",
                           [page |-> Default(page, 1), pageSize |-> Default(page_size, 10),
                            sortKey |-> Default(sort_key, "time"),
                            sortDir |-> Default(sort_dir, "desc"),
                            filterKey |-> filter_key,
                            filterValue |-> Default(filter_value, "All")]))

(***************************************************************************)
(* The client.                                                             *)
(***************************************************************************)
Init ==
    /\ method = NoCall
    /\ args = <<>>
    /\ requests = <<>>
    /\ raised = ""
    /\ result = NoResult
    /\ served = None
    /\ res = None
    /\ strftime_pads_year \in BOOLEAN

Next ==
    \/ construct_series_json
    \/ get_calendar
    \/ get_command
    \/ set_command
    \/ get_disk_space
    \/ get_episodes_by_series_id
    \/ get_episode_by_episode_id
    \/ upd_episode
    \/ get_episode_files_by_series_id
    \/ get_episode_file
    \/ del_episode_file
    \/ upd_episode_file_quality
    \/ get_history
    \/ get_wanted
    \/ get_queue
    \/ del_queue
    \/ get_parsed_title
    \/ get_parsed_path
    \/ get_quality_profiles
    \/ get_releases
    \/ download_release
    \/ push_release
    \/ get_root_folder
    \/ get_series
    \/ add_series
    \/ upd_series
    \/ del_series
    \/ lookup_series
    \/ lookup_series_by_tvdb_id
    \/ get_system_status
    \/ get_backup
    \/ get_tag
    \/ create_tag
    \/ upd_tag
    \/ del_tag
    \/ get_logs

Spec == Init /\ [][Next]_vars


(***************************************************************************)
(* Properties.                                                             *)
(***************************************************************************)
\* the call built a series payload: construct_series_json returned it, or
\* add_series handed it to the POST
PayloadBuilt ==
    \/ method = "construct_series_json" /\ raised = ""
    \/ method = "add_series" /\ Len(requests) = 2
Payload == IF method = "construct_series_json" THEN result ELSE requests[2].data

SeriesCall == method \in {"construct_series_json", "add_series"}

\* C1: when the series lookup returns zero matches, construct_series_json and
\* add_series fail with NotFoundError and issue nothing after the lookup
C1_EmptyLookupIsNotFound ==
    (SeriesCall /\ served = Some(<<>>)) =>
        /\ raised = "NotFoundError"
        /\ requests = <<lookup_series_request(args.tvdb_id)>>

\* a string that is a date written YYYY-MM-DD: four digits, two digits, two
\* digits, a month of the year and a day of that month
IsYMD(s) ==
    /\ Len(s) = 10
    /\ \A i \in {1, 2, 3, 4, 6, 7, 9, 10} : s[i] \in Digits
    /\ s[5] = "-"
    /\ s[8] = "-"
    /\ LET y == 1000 * DigitVal(s[1]) + 100 * DigitVal(s[2])
                + 10 * DigitVal(s[3]) + DigitVal(s[4])
           m == 10 * DigitVal(s[6]) + DigitVal(s[7])
           d == 10 * DigitVal(s[9]) + DigitVal(s[10])
       IN  y >= 1 /\ m \in 1..12 /\ d \in 1..DaysInMonth(y, m)
Malformed(opt) == opt # None /\ ~IsYMD(opt[1])
AbsentOrYMD(opt) == opt = None \/ IsYMD(opt[1])

\* C2: get_calendar with a start_date or end_date that is not a valid
\* YYYY-MM-DD date (the empty string included) fails with ValidationError and
\* hands nothing to the request layer
C2_MalformedDateIsRejected ==
    (/\ method = "get_calendar"
     /\ Malformed(args.start_date) \/ Malformed(args.end_date)
     /\ raised # TransportError) =>
        /\ raised = "ValidationError"
        /\ requests = <<>>

\* C3: with monitored = false the payload's season list has exactly the
\* seasons of the first lookup result, every one with monitored = false
C3_UnmonitoredSeasons ==
    (PayloadBuilt /\ ~args.monitored) =>
        LET given == served[1][1].seasons
        IN  /\ Len(Payload.seasons) = Len(given)
            /\ \A i \in 1..Len(given) :
                  /\ Payload.seasons[i].monitored = FALSE
                  /\ Payload.seasons[i].seasonNumber = given[i].seasonNumber

C3_Witness ==
    /\ method = "construct_series_json"
    /\ raised = ""
    /\ ~args.monitored
    /\ Len(served[1]) = 2
    /\ Len(served[1][1].seasons) = 2
    /\ \A i \in 1..2 : served[1][1].seasons[i].monitored
    /\ \A i \in 1..2 : ~result.seasons[i].monitored

\* C4: the list the request layer returned for the lookup is the same after
\* construct_series_json as it was when it was returned
C4_DescriptorIsReadOnly ==
    (SeriesCall /\ served # None) => res = served

\* "tvdb:<id>", written out
TvdbTerm ==
    <<"tvdb:0", "tvdb:1", "tvdb:2", "tvdb:3", "tvdb:4", "tvdb:5", "tvdb:6",
      "tvdb:7", "tvdb:8", "tvdb:9", "tvdb:10", "tvdb:11", "tvdb:12", "tvdb:13",
      "tvdb:14", "tvdb:15">>

\* C5: lookup_series_by_tvdb_id(id) hands the request layer the request that
\* lookup_series("tvdb:<id>") hands it
C5_ByIdIsLookupOfTvdbTerm ==
    /\ method = "lookup_series_by_tvdb_id" =>
          requests = <<lookup_series_request(TvdbTerm[args.id_ + 1])>>
    /\ (method = "lookup_series" /\ \E i \in Ids : args.term = TvdbTerm[i + 1]) =>
          \E i \in Ids : requests = <<lookup_series_by_tvdb_id_request(i)>>

C5_Witness ==
    /\ method = "lookup_series_by_tvdb_id"
    /\ args.id_ = 12
    /\ requests[1].params.term = "tvdb:12"
    /\ raised = ""

\* C6: a valid YYYY-MM-DD start_date (end_date) is transmitted as the 'start'
\* ('end') parameter unchanged, and a date that is not given adds no parameter
C6_ValidDateIsSentUnchanged ==
    (/\ method = "get_calendar"
     /\ AbsentOrYMD(args.start_date)
     /\ AbsentOrYMD(args.end_date)
     /\ raised # TransportError) =>
        /\ raised # "ValueError"
        /\ Len(requests) = 1
        /\ DOMAIN requests[1].params =
              (IF args.start_date = None THEN {} ELSE {"start"})
              \cup (IF args.end_date = None THEN {} ELSE {"end"})
        /\ args.start_date # None => requests[1].params["start"] = args.start_date[1]
        /\ args.end_date # None => requests[1].params["end"] = args.end_date[1]

\* C7 as stated: every call issues exactly one request, construct_series_json
\* exactly two (checked on the calls that returned)
C7_OneRequestTwoForConstruct ==
    (method # NoCall /\ raised = "") =>
        Len(requests) = (IF method = "construct_series_json" THEN 2 ELSE 1)

\* C7 as amended: a call that returns issued exactly one request, add_series
\* exactly two (the lookup, then the POST); a call that raises issued nothing
\* after the failure: nothing when get_calendar rejects a date, the lookup
\* alone when it has no match, and the failed request last when the request
\* layer raises
C7_RequestsPerCall ==
    method # NoCall =>
        /\ raised \in {"", "ValueError", "IndexError", TransportError}
        /\ raised = "" =>
              Len(requests) = (IF method = "add_series" THEN 2 ELSE 1)
        /\ raised = "ValueError" => method = "get_calendar" /\ requests = <<>>
        /\ raised = "IndexError" => SeriesCall /\ Len(requests) = 1
        /\ raised = TransportError =>
              Len(requests) \in (IF method = "add_series" THEN {1, 2} ELSE {1})
        /\ Len(requests) = 2 =>
              /\ requests[1] = lookup_series_request(args.tvdb_id)
              /\ requests[2].verb = "POST"
              /\ requests[2].path = "/api/series"

C7_Witness ==
    /\ method = "add_series"
    /\ raised = ""
    /\ Len(requests) = 2
    /\ requests[1].verb = "GET"
    /\ requests[2].verb = "POST"

\* C8: del_queue(id, blacklist), blacklist true, false or omitted (then true),
\* issues exactly one DELETE to /api/queue/ with the query parameters
\* {id: id, blacklist: blacklist} and no body
C8_QueueDeleteRequest ==
    method = "del_queue" =>
        /\ Len(requests) = 1
        /\ DOMAIN requests[1] = {"verb", "path", "params"}
        /\ requests[1].verb = "DELETE"
        /\ requests[1].path = "/api/queue/"
        /\ DOMAIN requests[1].params = {"id", "blacklist"}
        /\ requests[1].params.id = args.id_
        /\ requests[1].params.blacklist =
              (IF args.blacklist = None THEN TRUE ELSE args.blacklist[1])

C8_Witness ==
    /\ method = "del_queue"
    /\ args.id_ = 7
    /\ args.blacklist = Some(FALSE)
    /\ requests[1].params.blacklist = FALSE
    /\ raised = ""

\* C9: set_command(name, extra parameters) issues a POST to /api/command
\* whose body holds every extra parameter unchanged and the key 'name' with
\* the name argument as its value
C9_CommandBody ==
    method = "set_command" =>
        /\ Len(requests) = 1
        /\ requests[1].verb = "POST"
        /\ requests[1].path = "/api/command"
        /\ DOMAIN requests[1].data = DOMAIN args.kwargs \cup {"name"}
        /\ requests[1].data["name"] = args.name
        /\ \A k \in DOMAIN args.kwargs : requests[1].data[k] = args.kwargs[k]

C9_Witness ==
    /\ method = "set_command"
    /\ args.name = "RescanSeries"
    /\ DOMAIN args.kwargs = {"seriesId"}
    /\ args.kwargs["seriesId"] = 3
    /\ DOMAIN requests[1].data = {"name", "seriesId"}
    /\ requests[1].data["name"] = "RescanSeries"
    /\ requests[1].data["seriesId"] = 3

\* C10: the payload's path is root_dir followed at once by the title of the
\* first lookup result
C10_PathIsRootDirThenTitle ==
    PayloadBuilt => Payload.path = args.root_dir \o served[1][1].title

C10_Witness ==
    /\ method = "construct_series_json"
    /\ raised = ""
    /\ Len(served[1]) = 2
    /\ args.root_dir = "/tv/"
    /\ served[1][1].title = "/Other Show"
    /\ result.path = "/tv//Other Show"

\* "/api/command/<id>", written out
CommandStatusPath ==
    <<"/api/command/0", "/api/command/1", "/api/command/2", "/api/command/3",
      "/api/command/4", "/api/command/5", "/api/command/6", "/api/command/7",
      "/api/command/8", "/api/command/9", "/api/command/10", "/api/command/11",
      "/api/command/12", "/api/command/13", "/api/command/14", "/api/command/15">>

\* C11: get_command asks for /api/command/{id} whenever an id is given (0
\* included) and for /api/command only when no id is given
C11_CommandStatusPath ==
    (method = "get_command" /\ raised = "") =>
        /\ Len(requests) = 1
        /\ requests[1].verb = "GET"
        /\ requests[1].path =
              (IF args.id_ = None THEN "/api/command"
               ELSE CommandStatusPath[args.id_[1] + 1])

====
